---- MODULE Spec2Model ----
(***************************************************************************)
(* HealthScope, models/model_utils.py: the risk banding                    *)
(* (get_risk_classification) and the three prediction functions            *)
(* (predict_heart_disease, predict_diabetes, predict_pcos), the feature    *)
(* importance extraction (get_feature_importance), the four cached loaders *)
(* and the calls run side by side by concurrent request handlers.          *)
(*                                                                         *)
(* Probabilities are floats in the source; here a float is a whole number  *)
(* of hundredths (0.33 is 33, 0.82 is 82).  A Python value that reaches a  *)
(* conversion (int(), float()) or a comparison is a tagged number          *)
(* [t, v]: t = "float" (v in hundredths), "int" (v a whole number),        *)
(* "str" or "none" (no number at all).                                     *)
(***************************************************************************)
EXTENDS Integers, Sequences, FiniteSets, TLC

VARIABLES
    model,        \* argument: the loaded classifier, pipeline or None
    features,     \* argument: the ordered feature-name list, or None
    input_data,   \* argument: the feature vector (a dict, in key order)
    probability,  \* argument of get_risk_classification
    op,           \* the function called last ("none" before any call)
    result,       \* what the last call returned
    raised,       \* the exception that left the last call (NoException if none)
    calls,        \* the model operations the last call invoked, with their rows
    stage,        \* where the last call's try block raised ("" if nowhere)
    exc,          \* the exception raised inside the last call's try block
    top_n,        \* argument of get_feature_importance
    files,        \* the pickle files under models_pkls/: the state of each
    cache,        \* st.cache_resource: per loader, the value it returned first
    reads,        \* per file, how many times a loader has opened it
    handlers      \* the calls in progress when requests are served concurrently

vars == <<model, features, input_data, probability, op, result, raised, calls, stage, exc, top_n,
          files, cache, reads, handlers>>

\* What the prediction functions and get_feature_importance never touch.
process == <<files, cache, reads, handlers>>

(***************************************************************************)
(* Bounds of the input space.                                              *)
(***************************************************************************)
MaxVal == 1       \* feature values are 0..MaxVal, or NonNumeric
MaxFeat == 2      \* longest feature-name list
Margin == 5       \* how far outside [0,1] get_risk_classification is tried
MaxImp == 3       \* longest importance vector (besides ExampleScores)
MaxScore == 2     \* importance scores are 0..MaxScore
MaxTop == 3       \* top_n is -MaxTop..MaxTop, or the default
MaxBad == 1       \* files missing or corrupt when the process starts
MaxReads == 2     \* opens of one file that are followed
NumHandlers == 2  \* request handlers running at once

Names == {"a", "b", "c"}
MaxKeys == Cardinality(Names)

\* A feature value that is no number (a string typed into a form).
NonNumeric == -1
Values == {NonNumeric} \cup (0..MaxVal)

Min(x, y) == IF x < y THEN x ELSE y

NoDup(s) == \A i, j \in 1..Len(s) : i # j => s[i] # s[j]
SeqsUpTo(S, n) == UNION {[1..k -> S] : k \in 0..n}
Range(s) == {s[i] : i \in 1..Len(s)}

(***************************************************************************)
(* Python values.                                                          *)
(***************************************************************************)
PyFloatOf(h) == [t |-> "float", v |-> h]
PyIntOf(n) == [t |-> "int", v |-> n]
PyStr == [t |-> "str", v |-> 0]
PyNone == [t |-> "none", v |-> 0]

\* Exceptions: a type and the text str(e) gives.  The text of a message is
\* kept as a fixed part and the names it is about.
Msg(text, about) == [text |-> text, about |-> about]
EmptyMsg == Msg("", <<>>)
Exception(type, msg) == [type |-> type, msg |-> msg]
NoException == Exception("", EmptyMsg)

Ok(v) == [ok |-> TRUE, val |-> v]
Raise(e) == [ok |-> FALSE, exc |-> e]

\* int(x): a float is truncated, a str that is no numeral and None raise.
PyInt(x) ==
    CASE x.t = "int" -> Ok(x.v)
      [] x.t = "float" -> Ok(IF x.v >= 0 THEN x.v \div 100 ELSE -((-x.v) \div 100))
      [] x.t = "str" -> Raise(Exception("ValueError", Msg("invalid literal for int() with base 10", <<>>)))
      [] OTHER -> Raise(Exception("TypeError", Msg("int() argument must be a string, a bytes-like object or a real number", <<>>)))

\* float(x), in hundredths.
PyFloat(x) ==
    CASE x.t = "float" -> Ok(x.v)
      [] x.t = "int" -> Ok(x.v * 100)
      [] x.t = "str" -> Raise(Exception("ValueError", Msg("could not convert string to float", <<>>)))
      [] OTHER -> Raise(Exception("TypeError", Msg("float() argument must be a string or a real number", <<>>)))

\* x < c for a float literal c (in hundredths): numbers compare by value,
\* anything else raises TypeError.
PyLess(x, c) ==
    CASE x.t = "float" -> Ok(x.v < c)
      [] x.t = "int" -> Ok(x.v * 100 < c)
      [] OTHER -> Raise(Exception("TypeError", Msg("'<' not supported between instances", <<>>)))

(***************************************************************************)
(* Risk banding.                                                           *)
(***************************************************************************)
LowThreshold == 33
HighThreshold == 67

Band(level, color, recommendation) ==
    [risk_level |-> level, color |-> color, recommendation |-> recommendation]
LowBand == Band("Low Risk", "#10B981", "Maintain healthy lifestyle and regular check-ups.")
ModerateBand == Band("Moderate Risk", "#F59E0B", "Consult healthcare provider and consider lifestyle modifications.")
HighBand == Band("High Risk", "#EF4444", "Immediate medical consultation recommended.")

\* Mutant: a probability outside [0, 1] is refused with ValueError.
get_risk_classification_Validated(p) ==
    LET neg == PyLess(p, 0)
        low == PyLess(p, LowThreshold)
        mid == PyLess(p, HighThreshold)
        top == PyLess(p, 101)
    IN
    IF ~neg.ok THEN Raise(neg.exc)
    ELSE IF neg.val \/ ~top.val
    THEN Raise(Exception("ValueError", Msg("probability must be between 0 and 1", <<>>)))
    ELSE IF low.val THEN Ok(LowBand)
    ELSE IF mid.val THEN Ok(ModerateBand)
    ELSE Ok(HighBand)

\* Mutant: the two upper branches exchanged.
get_risk_classification_Swapped(p) ==
    LET low == PyLess(p, LowThreshold) IN
    IF ~low.ok THEN Raise(low.exc)
    ELSE IF low.val THEN Ok(LowBand)
    ELSE LET mid == PyLess(p, HighThreshold) IN
         IF ~mid.ok THEN Raise(mid.exc)
         ELSE IF mid.val THEN Ok(HighBand)
         ELSE Ok(ModerateBand)

\* Mutant: the lower boundary compared with <=, so that 0.33 falls in Low Risk.
get_risk_classification_LowInclusive(p) ==
    LET low == PyLess(p, LowThreshold + 1) IN
    IF ~low.ok THEN Raise(low.exc)
    ELSE IF low.val THEN Ok(LowBand)
    ELSE LET mid == PyLess(p, HighThreshold) IN
         IF ~mid.ok THEN Raise(mid.exc)
         ELSE IF mid.val THEN Ok(ModerateBand)
         ELSE Ok(HighBand)

\* if probability < 0.33 ... elif probability < 0.67 ... else ...
\* A comparison that raises leaves the function with that exception.
get_risk_classification(p) ==
    LET low == PyLess(p, LowThreshold) IN
    IF ~low.ok THEN Raise(low.exc)
    ELSE IF low.val THEN Ok(LowBand)
    ELSE LET mid == PyLess(p, HighThreshold) IN
         IF ~mid.ok THEN Raise(mid.exc)
         ELSE IF mid.val THEN Ok(ModerateBand)
         ELSE Ok(HighBand)

(***************************************************************************)
(* The feature vector, the feature list and the single-row table.          *)
(***************************************************************************)
\* A dict is the sequence of its items in insertion order; keys are distinct.
Items == [name : Names, val : Values]
InputDatas == {d \in SeqsUpTo(Items, MaxKeys) : NoDup([i \in 1..Len(d) |-> d[i].name])}
Keys(d) == [i \in 1..Len(d) |-> d[i].name]

\* The feature list: a list of names, or None (a failed load).
NoFeatures == [kind |-> "none", names |-> <<>>]
FeatureList(names) == [kind |-> "list", names |-> names]
FeatureLists == {NoFeatures} \cup {FeatureList(s) : s \in {t \in SeqsUpTo(Names, MaxFeat) : NoDup(t)}}

\* pd.DataFrame([input_data]): one row, a column per key, in key order.
DataFrame(d) == [columns |-> Keys(d), row |-> [i \in 1..Len(d) |-> d[i].val]]

IndexOf(s, x) == CHOOSE i \in 1..Len(s) : s[i] = x

\* Mutant: the listed columns the table has, the missing ones skipped.
SelectColumns_SkipMissing(df, f) ==
    LET present == SelectSeq(f.names, LAMBDA n : n \in Range(df.columns)) IN
    Ok([columns |-> present,
        row |-> [i \in 1..Len(present) |-> df.row[IndexOf(df.columns, present[i])]]])

\* df[features]: the listed columns in the list's order; KeyError when the
\* list is None or names a column the table lacks.
SelectColumns(df, f) ==
    IF f.kind = "none"
    THEN Raise(Exception("KeyError", Msg("None", <<>>)))
    ELSE LET missing == SelectSeq(f.names, LAMBDA n : n \notin Range(df.columns)) IN
         IF missing # <<>> /\ Len(missing) = Len(f.names)
         THEN Raise(Exception("KeyError", Msg("None of [Index] are in the [columns]", f.names)))
         ELSE IF missing # <<>>
         THEN Raise(Exception("KeyError", Msg("not in index", missing)))
         ELSE Ok([columns |-> f.names,
                  row |-> [i \in 1..Len(f.names) |-> df.row[IndexOf(df.columns, f.names[i])]]])

(***************************************************************************)
(* The trained classifier: an object of the model provider.  A fitted      *)
(* bare classifier reads its columns by position, a pipeline selects its   *)
(* own columns by name; both turn the row into the probability of the      *)
(* positive class and the class with the larger probability.  fault names  *)
(* what a malformed object lacks or does wrong.                            *)
(***************************************************************************)
Faults == {"no_predict", "not_implemented", "no_proba", "one_class", "proba_str"}
\* "inverted": an object whose predict names the class its predict_proba
\* finds the less likely.
Biases == {0, 34, 49}

\* What get_feature_importance reads of a model object.  steps: whether the
\* object has named_steps ("absent", "dict", or "raises" when reading the
\* attribute raises); classifier: whether named_steps has a 'classifier'
\* step; preprocessor: "absent", or a step whose get_feature_names_out gives
\* names_out ("names") or raises ("raises"); own and step: the
\* feature_importances_ of the object itself and of its classifier step
\* (has: the attribute exists; sized: it has a length).
Importances(scores) == [has |-> TRUE, sized |-> TRUE, scores |-> scores]
NoImportances == [has |-> FALSE, sized |-> TRUE, scores |-> <<>>]
Unsized == [has |-> TRUE, sized |-> FALSE, scores |-> <<>>]
Attributes(steps, classifier, preprocessor, names_out, own, step) ==
    [steps |-> steps, classifier |-> classifier, preprocessor |-> preprocessor,
     names_out |-> names_out, own |-> own, step |-> step]
PlainObject(own) == Attributes("absent", FALSE, "absent", <<>>, own, NoImportances)

\* The name a ColumnTransformer reports for a numeric column.
OutName(n) == CASE n = "a" -> "num__a" [] n = "b" -> "num__b" [] OTHER -> "num__c"

\* The attributes of the objects the training scripts produce: a fitted
\* RandomForestClassifier has a score per column; a fitted pipeline has a
\* preprocessor and a classifier step; None has nothing.
FittedAttributes(kind, cols, nfeat) ==
    CASE kind = "classifier" -> PlainObject(Importances([i \in 1..nfeat |-> i]))
      [] kind = "pipeline" ->
            Attributes("dict", TRUE, "names", [i \in 1..Len(cols) |-> OutName(cols[i])],
                       NoImportances, Importances([i \in 1..Len(cols) |-> i]))
      [] OTHER -> PlainObject(NoImportances)

ModelObject(kind, cols, nfeat, bias, labels, fault) ==
    [kind |-> kind, cols |-> cols, nfeat |-> nfeat, bias |-> bias, labels |-> labels, fault |-> fault,
     attrs |-> FittedAttributes(kind, cols, nfeat)]
NoModel == ModelObject("none", <<>>, 0, 0, "int", "ok")
Classifier(nfeat, bias, labels, fault) == ModelObject("classifier", <<>>, nfeat, bias, labels, fault)
Pipeline(cols, bias) == ModelObject("pipeline", cols, Len(cols), bias, "int", "ok")

Models ==
    {NoModel}
    \cup {Classifier(n, b, "int", "ok") : n \in 1..MaxFeat, b \in Biases}
    \cup {Classifier(1, 49, l, "ok") : l \in {"float", "str"}}
    \cup {Classifier(1, 49, "int", f) : f \in Faults}
    \cup {Pipeline(c, 34) : c \in {<<"a">>, <<"b", "a">>}}

\* hasattr(model, name) for name in {"predict", "predict_proba"}.
HasAttr(m, name) ==
    /\ m.kind # "none"
    /\ m.fault # "no_predict"
    /\ ~(m.fault = "no_proba" /\ name = "predict_proba")

RECURSIVE Score(_)
Score(vals) == IF vals = <<>> THEN 0 ELSE Len(vals) * vals[Len(vals)] + Score(SubSeq(vals, 1, Len(vals) - 1))

\* The values the model computes on: input validation of the fitted object.
ModelInput(m, frame) ==
    LET missing == SelectSeq(m.cols, LAMBDA n : n \notin Range(frame.columns))
        vals == IF m.kind = "pipeline"
                THEN [i \in 1..Len(m.cols) |-> frame.row[IndexOf(frame.columns, m.cols[i])]]
                ELSE frame.row
    IN  IF m.kind = "pipeline" /\ missing # <<>>
        THEN Raise(Exception("ValueError", Msg("columns are missing", missing)))
        ELSE IF m.kind = "classifier" /\ Len(frame.row) # m.nfeat
        THEN Raise(Exception("ValueError", Msg("X has a different number of features than the classifier expects", <<>>)))
        ELSE IF NonNumeric \in Range(vals)
        THEN Raise(Exception("ValueError", Msg("could not convert string to float", <<>>)))
        ELSE Ok(vals)

PositiveProbability(m, vals) == Min(100, m.bias + 11 * Score(vals))

Label(m, class) ==
    CASE m.labels = "int" -> PyIntOf(class)
      [] m.labels = "float" -> PyFloatOf(class * 100)
      [] OTHER -> PyStr

\* model.predict(df): one label per row.
ModelPredict(m, frame) ==
    IF m.fault = "not_implemented"
    THEN Raise(Exception("NotImplementedError", EmptyMsg))
    ELSE LET x == ModelInput(m, frame) IN
         IF ~x.ok THEN Raise(x.exc)
         ELSE LET class == IF PositiveProbability(m, x.val) > 50 THEN 1 ELSE 0 IN
              Ok(<<Label(m, IF m.fault = "inverted" THEN 1 - class ELSE class)>>)

\* model.predict_proba(df): per row, the probability of each class.
ModelPredictProba(m, frame) ==
    LET x == ModelInput(m, frame) IN
    IF ~x.ok THEN Raise(x.exc)
    ELSE LET p == PositiveProbability(m, x.val) IN
         CASE m.fault = "one_class" -> Ok(<< <<PyFloatOf(100)>> >>)
           [] m.fault = "proba_str" -> Ok(<< <<PyStr, PyStr>> >>)
           [] OTHER -> Ok(<< <<PyFloatOf(100 - p), PyFloatOf(p)>> >>)

(***************************************************************************)
(* The prediction functions.  What a call does is a record: the value      *)
(* returned (ret), the exception that left the call (raised), the model    *)
(* operations invoked with the table each was handed (calls), and the      *)
(* exception raised inside the try block with the step that raised it.     *)
(***************************************************************************)
NoResult == [returned |-> FALSE]

\* The classes that the exceptions raised in the try block belong to; all
\* derive from Exception.
ExceptionTypes ==
    {"KeyError", "AttributeError", "ValueError", "TypeError", "IndexError", "NotImplementedError"}

\* Mutant: except KeyError as e.
Caught_KeyErrorOnly(e) == e.type = "KeyError"

\* except Exception as e
Caught(e) == e.type \in ExceptionTypes

\* Mutant: a failure result that also carries empty result fields.
FailureResult_Partial(e) == [success |-> FALSE, error |-> e.msg, prediction |-> 0, probability |-> 0]

\* return {'success': False, 'error': str(e)}
FailureResult(e) == [success |-> FALSE, error |-> e.msg]

\* Mutant: the probability reported as a percentage.
SuccessResult_Percent(prediction, prob, band) ==
    [prediction |-> prediction, probability |-> prob * 100, risk_level |-> band.risk_level,
     color |-> band.color, recommendation |-> band.recommendation, success |-> TRUE]

\* Mutant: the probability reported is that of the predicted class.
SuccessResult_Confidence(prediction, prob, band) ==
    [prediction |-> prediction, probability |-> IF prediction = 1 THEN prob ELSE 100 - prob,
     risk_level |-> band.risk_level,
     color |-> band.color, recommendation |-> band.recommendation, success |-> TRUE]

\* Mutant: the band is made to agree with the class.
SuccessResult_BandOfClass(prediction, prob, band) ==
    LET agreed == IF prediction = 1 THEN HighBand ELSE IF band = HighBand THEN ModerateBand ELSE band IN
    [prediction |-> prediction, probability |-> prob, risk_level |-> agreed.risk_level,
     color |-> agreed.color, recommendation |-> agreed.recommendation, success |-> TRUE]

\* return {'prediction': int(prediction), 'probability': float(probability), ...}
\* with the two conversions already done.
SuccessResult(prediction, prob, band) ==
    [prediction |-> prediction, probability |-> prob, risk_level |-> band.risk_level,
     color |-> band.color, recommendation |-> band.recommendation, success |-> TRUE]

Returned(ret, invoked) ==
    [ret |-> ret, raised |-> NoException, calls |-> invoked, stage |-> "", exc |-> NoException]

\* An exception raised in the try block at step st.
Except(e, st, invoked) ==
    IF Caught(e)
    THEN [ret |-> FailureResult(e), raised |-> NoException, calls |-> invoked, stage |-> st, exc |-> e]
    ELSE [ret |-> NoResult, raised |-> e, calls |-> invoked, stage |-> st, exc |-> e]

NoAttribute(attr) == Exception("AttributeError", Msg("object has no attribute", <<attr>>))
Invocation(name, frame) == [op |-> name, frame |-> frame]

\* Mutant: model.predict_proba(df)[0][0], the probability of class 0.
PositiveClass_FirstColumn(proba) == Ok(proba[1][1])

\* probability = model.predict_proba(df)[0][1]
PositiveClass(proba) ==
    IF Len(proba[1]) < 2
    THEN Raise(Exception("IndexError", Msg("index 1 is out of bounds for axis 0 with size 1", <<>>)))
    ELSE Ok(proba[1][2])

\* The try block once the table df is built (or building it raised).
Predict(m, df) ==
    IF ~df.ok THEN Except(df.exc, "row", <<>>)
    ELSE IF ~HasAttr(m, "predict") THEN Except(NoAttribute("predict"), "predict", <<>>)
    ELSE
    LET c1 == <<Invocation("predict", df.val)>>
        labels == ModelPredict(m, df.val)
    IN
    IF ~labels.ok THEN Except(labels.exc, "predict", c1)
    ELSE IF ~HasAttr(m, "predict_proba") THEN Except(NoAttribute("predict_proba"), "predict_proba", c1)
    ELSE
    LET c2 == Append(c1, Invocation("predict_proba", df.val))
        proba == ModelPredictProba(m, df.val)
    IN
    IF ~proba.ok THEN Except(proba.exc, "predict_proba", c2)
    ELSE
    LET prob == PositiveClass(proba.val) IN
    IF ~prob.ok THEN Except(prob.exc, "predict_proba", c2)
    ELSE
    LET band == get_risk_classification(prob.val) IN
    IF ~band.ok THEN Except(band.exc, "band", c2)
    ELSE
    LET i == PyInt(labels.val[1])
        f == PyFloat(prob.val)
    IN
    IF ~i.ok THEN Except(i.exc, "convert", c2)
    ELSE IF ~f.ok THEN Except(f.exc, "convert", c2)
    ELSE Returned(SuccessResult(i.val, f.val, band.val), c2)

\* Mutant: the listed names are required, but the whole table is handed on.
OrderedRow_Unselected(f, d) ==
    IF SelectColumns(DataFrame(d), f).ok THEN Ok(DataFrame(d)) ELSE SelectColumns(DataFrame(d), f)

\* df = pd.DataFrame([input_data])[features]
OrderedRow(f, d) == SelectColumns(DataFrame(d), f)

\* Mutant: only the numeric columns are kept.
FullRow_NumericOnly(d) ==
    LET kept == SelectSeq(d, LAMBDA item : item.val # NonNumeric) IN Ok(DataFrame(kept))

\* df = pd.DataFrame([input_data])
FullRow(d) == Ok(DataFrame(d))

\* Mutant: an absent model is rejected before the try block.
predict_heart_disease_Unguarded(m, f, d) ==
    IF m.kind = "none"
    THEN [ret |-> NoResult, raised |-> Exception("ValueError", Msg("model not loaded", <<>>)),
          calls |-> <<>>, stage |-> "", exc |-> NoException]
    ELSE Predict(m, OrderedRow(f, d))

predict_heart_disease(m, f, d) == Predict(m, OrderedRow(f, d))

predict_diabetes(m, f, d) == Predict(m, OrderedRow(f, d))

\* Mutant: the columns are handed on in the opposite order.
predict_pcos_Reversed(m, d) ==
    Predict(m, FullRow([i \in 1..Len(d) |-> d[Len(d) + 1 - i]]))

predict_pcos(m, d) == Predict(m, FullRow(d))

(***************************************************************************)
(* Feature importance extraction.  The value returned is a list of         *)
(* (name, score) pairs; the record of a call also says what the caller's   *)
(* name list holds once the call is over.                                  *)
(***************************************************************************)
ImportanceList(pairs) == [list |-> pairs]
Pair(name, score) == [name |-> name, score |-> score]

\* Mutant: classifier = model, whatever the steps.
ClassifierOf_ModelItself(m) ==
    IF m.attrs.steps = "raises"
    THEN Raise(Exception("ValueError", Msg("named_steps could not be read", <<>>)))
    ELSE Ok(m.attrs.own)

\* if hasattr(model, 'named_steps'): classifier = model.named_steps.get('classifier', model)
\* else: classifier = model
\* The value is what the chosen object has as feature_importances_.
ClassifierOf(m) ==
    CASE m.attrs.steps = "raises" ->
            Raise(Exception("ValueError", Msg("named_steps could not be read", <<>>)))
      [] m.attrs.steps = "dict" /\ m.attrs.classifier -> Ok(m.attrs.step)
      [] OTHER -> Ok(m.attrs.own)

\* Mutant: names of the preprocessor that do not fit the scores give way to
\* a caller's list that does.
NamesInUse_FallBack(m, caller) ==
    LET scores == IF m.attrs.classifier THEN m.attrs.step.scores ELSE m.attrs.own.scores IN
    IF m.attrs.steps = "dict" /\ m.attrs.preprocessor = "names"
       /\ ~(Len(m.attrs.names_out) # Len(scores) /\ caller.kind = "list" /\ Len(caller.names) = Len(scores))
    THEN FeatureList(m.attrs.names_out)
    ELSE caller

\* Mutant: the preprocessor's names are taken only when the caller gave none.
NamesInUse_CallerFirst(m, caller) ==
    IF m.attrs.steps = "dict" /\ m.attrs.preprocessor = "names" /\ caller.kind = "none"
    THEN FeatureList(m.attrs.names_out)
    ELSE caller

\* if hasattr(model, 'named_steps') and 'preprocessor' in model.named_steps:
\*     try: feature_names = model.named_steps['preprocessor'].get_feature_names_out()
\*     except: pass
NamesInUse(m, caller) ==
    IF m.attrs.steps = "dict" /\ m.attrs.preprocessor = "names"
    THEN FeatureList(m.attrs.names_out)
    ELSE caller

\* len(x) of a name list (None has no length).
PyLen(x) ==
    IF x.kind = "list" THEN Ok(Len(x.names))
    ELSE Raise(Exception("TypeError", Msg("object of type 'NoneType' has no len()", <<>>)))

\* len(importances)
ImportancesLen(imp) ==
    IF imp.sized THEN Ok(Len(imp.scores))
    ELSE Raise(Exception("TypeError", Msg("len() of unsized object", <<>>)))

\* f"Feature_{i}"
FeatureLabels ==
    <<"Feature_0", "Feature_1", "Feature_2", "Feature_3", "Feature_4", "Feature_5",
      "Feature_6", "Feature_7", "Feature_8", "Feature_9">>
SyntheticName(i) == FeatureLabels[i + 1]

\* [f"Feature_{i}" for i in range(len(importances))]
SyntheticNames(n) == [i \in 1..n |-> SyntheticName(i - 1)]

\* Mutant: the names are paired with the scores read from the other end.
Zip_Misaligned(names, scores) ==
    LET k == Min(Len(names), Len(scores)) IN
    [i \in 1..k |-> Pair(names[i], scores[k + 1 - i])]

\* list(zip(feature_names, importances))
Zip(names, scores) == [i \in 1..Min(Len(names), Len(scores)) |-> Pair(names[i], scores[i])]

\* Mutant: the pair goes before the pairs of equal score too.
InsertDescending_Unstable(sorted, x) ==
    LET before == SelectSeq(sorted, LAMBDA y : y.score > x.score)
        after == SelectSeq(sorted, LAMBDA y : y.score <= x.score)
    IN before \o <<x>> \o after

\* One pair put in its place in a list sorted by score, largest first, after
\* the pairs of equal score.
InsertDescending(sorted, x) ==
    LET before == SelectSeq(sorted, LAMBDA y : y.score >= x.score)
        after == SelectSeq(sorted, LAMBDA y : y.score < x.score)
    IN before \o <<x>> \o after

\* Mutant: importance_list.sort(key=lambda x: x[1]), smallest first.
RECURSIVE SortDescending_Ascending(_)
SortDescending_Ascending(list) ==
    IF list = <<>> THEN <<>>
    ELSE LET rest == SortDescending_Ascending(SubSeq(list, 1, Len(list) - 1))
             x == list[Len(list)]
         IN SelectSeq(rest, LAMBDA y : y.score <= x.score) \o <<x>>
            \o SelectSeq(rest, LAMBDA y : y.score > x.score)

\* importance_list.sort(key=lambda x: x[1], reverse=True): stable, so pairs
\* of equal score keep their order.
RECURSIVE SortDescending(_)
SortDescending(list) ==
    IF list = <<>> THEN <<>>
    ELSE InsertDescending(SortDescending(SubSeq(list, 1, Len(list) - 1)), list[Len(list)])

\* Mutant: a negative top_n is taken as "none".
Slice_NegativeEmpty(list, n) ==
    IF n >= 0 THEN SubSeq(list, 1, Min(n, Len(list))) ELSE <<>>

\* Mutant: importance_list[:top_n + 1]
Slice_OneMore(list, n) ==
    IF n + 1 >= 0 THEN SubSeq(list, 1, Min(n + 1, Len(list)))
    ELSE SubSeq(list, 1, IF Len(list) + n + 1 > 0 THEN Len(list) + n + 1 ELSE 0)

\* importance_list[:top_n]: the first top_n pairs; for a negative top_n all
\* but the last -top_n.
Slice(list, n) ==
    IF n >= 0 THEN SubSeq(list, 1, Min(n, Len(list)))
    ELSE SubSeq(list, 1, IF Len(list) + n > 0 THEN Len(list) + n ELSE 0)

\* Mutant: feature_names.clear() before the new names are put in a list.
AfterRebinding_Cleared(caller, new) ==
    IF caller.kind = "list" /\ new # caller THEN FeatureList(<<>>) ELSE caller

\* Mutant: feature_names[:] = ..., the caller's list is overwritten.
AfterRebinding_InPlace(caller, new) == IF caller.kind = "list" /\ new.kind = "list" THEN new ELSE caller

\* feature_names = ...: the local name is rebound; the caller's list is what
\* it was.
AfterRebinding(caller, new) == caller

ImportanceReturned(pairs, caller) ==
    [ret |-> ImportanceList(pairs), raised |-> NoException, calls |-> <<>>, stage |-> "",
     exc |-> NoException, caller_names |-> caller]

\* Mutant: the missing attribute is reported to the caller.
NoImportanceVector_Raises(caller) ==
    [ret |-> NoResult, raised |-> NoAttribute("feature_importances_"), calls |-> <<>>, stage |-> "importances",
     exc |-> NoAttribute("feature_importances_"), caller_names |-> caller]

\* else: return []
NoImportanceVector(caller) == ImportanceReturned(<<>>, caller)

\* Mutant: except TypeError as e: return [].
ImportanceCaught_TypeErrorOnly(e) == e.type = "TypeError"

\* except Exception as e (the outer handler of get_feature_importance)
ImportanceCaught(e) == e.type \in ExceptionTypes

\* except Exception as e: return []
ImportanceExcept(e, st, caller) ==
    IF ImportanceCaught(e)
    THEN [ret |-> ImportanceList(<<>>), raised |-> NoException, calls |-> <<>>, stage |-> st,
          exc |-> e, caller_names |-> caller]
    ELSE [ret |-> NoResult, raised |-> e, calls |-> <<>>, stage |-> st, exc |-> e,
          caller_names |-> caller]

\* Mutant: the caller's names are kept, whatever their number.
NamesFor_Kept(names, n) == names

\* if len(feature_names) != len(importances): feature_names = [f"Feature_{i}" ...]
\* (both lengths are known here)
NamesFor(names, n) == IF Len(names.names) # n THEN FeatureList(SyntheticNames(n)) ELSE names

get_feature_importance(m, feature_names, n) ==
    LET classifier == ClassifierOf(m) IN
    IF ~classifier.ok THEN ImportanceExcept(classifier.exc, "named_steps", feature_names)
    ELSE IF ~classifier.val.has THEN NoImportanceVector(feature_names)
    ELSE
    LET importances == classifier.val
        names1 == NamesInUse(m, feature_names)
        caller1 == AfterRebinding(feature_names, names1)
        len1 == PyLen(names1)
        len2 == ImportancesLen(importances)
    IN
    IF ~len1.ok THEN ImportanceExcept(len1.exc, "len", caller1)
    ELSE IF ~len2.ok THEN ImportanceExcept(len2.exc, "len", caller1)
    ELSE
    LET names2 == NamesFor(names1, len2.val)
        caller2 == AfterRebinding(caller1, names2)
        importance_list == SortDescending(Zip(names2.names, importances.scores))
    IN ImportanceReturned(Slice(importance_list, n), caller2)

(***************************************************************************)
(* The loaders.  Each reads its pickle files inside a try block and is     *)
(* wrapped by st.cache_resource, which keeps the value of the first call   *)
(* that returned and hands it to every later call.                         *)
(***************************************************************************)
Files ==
    {"heart_model.pkl", "heart_features.pkl", "diabetes_model.pkl", "diabetes_features.pkl",
     "pcos_model.pkl", "pcos_features.pkl"}
FileStates == {"ok", "missing", "corrupt"}
Loaders == {"load_heart_model", "load_diabetes_model", "load_pcos_model", "load_pcos_features"}

\* What the training scripts pickled.
PickledModel == Classifier(1, 49, "int", "ok")
PickledFeatures == FeatureList(<<"a">>)
PickledPipeline == Pipeline(<<"a">>, 34)
PickledInfo == [kind |-> "dict", all_features |-> <<"a">>]
NoInfo == [kind |-> "none", all_features |-> <<>>]

\* with open(path, 'rb') as f: pickle.load(f)
ReadPickle(fs, path, content) ==
    CASE fs[path] = "ok" -> Ok(content)
      [] fs[path] = "missing" -> Raise(Exception("FileNotFoundError", Msg("No such file or directory", <<path>>)))
      [] OTHER -> Raise(Exception("UnpicklingError", Msg("invalid load key", <<>>)))

\* except Exception as e
LoadCaught(e) == e.type \in {"FileNotFoundError", "UnpicklingError"}

\* What one run of a loader's body does: the value returned, the exception
\* that left it, the exception raised in its try block, the files opened.
Loaded(value, opened) == [ret |-> value, raised |-> NoException, exc |-> NoException, opened |-> opened]
LoadExcept(e, none, opened) ==
    IF LoadCaught(e)
    THEN [ret |-> none, raised |-> NoException, exc |-> e, opened |-> opened]
    ELSE [ret |-> NoResult, raised |-> e, exc |-> e, opened |-> opened]

LoadedPair(m, f) == [model |-> m, features |-> f]
NonePair == LoadedPair(NoModel, NoFeatures)

\* Mutant: a model that loaded is returned with features None.
LoadPair_KeepsModel(fs, mpath, fpath, m, f) ==
    LET a == ReadPickle(fs, mpath, m) IN
    IF ~a.ok THEN LoadExcept(a.exc, NonePair, <<mpath>>)
    ELSE LET b == ReadPickle(fs, fpath, f) IN
         IF ~b.ok THEN LoadExcept(b.exc, LoadedPair(a.val, NoFeatures), <<mpath, fpath>>)
         ELSE Loaded(LoadedPair(a.val, b.val), <<mpath, fpath>>)

\* The body of load_heart_model and of load_diabetes_model:
\* try: model = pickle.load(...); features = pickle.load(...); return model, features
\* except Exception as e: return None, None
LoadPair(fs, mpath, fpath, m, f) ==
    LET a == ReadPickle(fs, mpath, m) IN
    IF ~a.ok THEN LoadExcept(a.exc, NonePair, <<mpath>>)
    ELSE LET b == ReadPickle(fs, fpath, f) IN
         IF ~b.ok THEN LoadExcept(b.exc, NonePair, <<mpath, fpath>>)
         ELSE Loaded(LoadedPair(a.val, b.val), <<mpath, fpath>>)

\* The body of load_pcos_model and of load_pcos_features.
LoadOne(fs, path, content, none) ==
    LET a == ReadPickle(fs, path, content) IN
    IF ~a.ok THEN LoadExcept(a.exc, none, <<path>>)
    ELSE Loaded(a.val, <<path>>)

NotCached == [set |-> FALSE, val |-> NoResult]
EmptyCache == [l \in Loaders |-> NotCached]

\* @st.cache_resource on a function without parameters: a call finds the
\* value of the first call that returned, or runs the body and keeps what it
\* returns; a body that raises leaves nothing behind.
CacheResource(key, body, c) ==
    IF c[key].set
    THEN [ret |-> c[key].val, raised |-> NoException, exc |-> NoException, opened |-> <<>>,
          cache |-> c, ran |-> FALSE]
    ELSE [ret |-> body.ret, raised |-> body.raised, exc |-> body.exc, opened |-> body.opened,
          cache |-> IF body.raised = NoException
                    THEN [c EXCEPT ![key] = [set |-> TRUE, val |-> body.ret]]
                    ELSE c,
          ran |-> TRUE]

\* Mutant: load_heart_model without its decorator.
load_heart_model_Undecorated(c, fs) ==
    LET body == LoadPair(fs, "heart_model.pkl", "heart_features.pkl", PickledModel, PickledFeatures) IN
    [ret |-> body.ret, raised |-> body.raised, exc |-> body.exc, opened |-> body.opened,
     cache |-> c, ran |-> TRUE]

load_heart_model(c, fs) ==
    CacheResource("load_heart_model",
                  LoadPair(fs, "heart_model.pkl", "heart_features.pkl", PickledModel, PickledFeatures), c)

load_diabetes_model(c, fs) ==
    CacheResource("load_diabetes_model",
                  LoadPair(fs, "diabetes_model.pkl", "diabetes_features.pkl", PickledModel, PickledFeatures), c)

load_pcos_model(c, fs) ==
    CacheResource("load_pcos_model", LoadOne(fs, "pcos_model.pkl", PickledPipeline, NoModel), c)

load_pcos_features(c, fs) ==
    CacheResource("load_pcos_features", LoadOne(fs, "pcos_features.pkl", PickledInfo, NoInfo), c)

\* Before any loader or handler has run.
AllPresent == [f \in Files |-> "ok"]
NoReads == [f \in Files |-> 0]
Unloaded ==
    /\ files = AllPresent
    /\ cache = EmptyCache
    /\ reads = NoReads
    /\ handlers = <<>>

(***************************************************************************)
(* The state machine: the arguments are chosen once, and the functions are *)
(* called on them in any order, any number of times.                       *)
(***************************************************************************)
Probabilities == {PyFloatOf(h) : h \in (0 - Margin)..(100 + Margin)} \cup {PyIntOf(0), PyIntOf(1)}

DefaultModel == Classifier(1, 49, "int", "ok")
DefaultFeatures == FeatureList(<<"a">>)
DefaultInput == <<[name |-> "a", val |-> 1]>>

\* def get_feature_importance(model, feature_names, top_n=10)
DefaultTopN == 10

\* The arguments get_feature_importance is tried on.
ExampleScores == <<3, 1, 4, 1, 5>>
ScoreVectors == SeqsUpTo(0..MaxScore, MaxImp) \cup {ExampleScores}
StepVectors == {<<1>>, <<0, 2, 2>>, <<2, 1, 0>>}
OutNameLists == {<<"num__a">>, <<"num__a", "cat__b_0", "cat__b_1">>}

PlainAttributes ==
    {PlainObject(i) : i \in {NoImportances, Unsized} \cup {Importances(v) : v \in ScoreVectors}}
PipelineAttributes ==
    {Attributes("dict", c, pn[1], pn[2], own, step) :
        c \in BOOLEAN,
        pn \in {<<"absent", <<>> >>, <<"raises", <<>> >>} \cup {<<"names", o>> : o \in OutNameLists},
        own \in {NoImportances, Importances(<<2, 1, 0>>)},
        step \in {NoImportances, Unsized} \cup {Importances(v) : v \in StepVectors}}
    \cup {Attributes("raises", FALSE, "absent", <<>>, NoImportances, NoImportances)}

ImportanceModel(a) ==
    [kind |-> IF a.steps = "absent" THEN "classifier" ELSE "pipeline",
     cols |-> IF a.steps = "absent" THEN <<>> ELSE <<"a">>,
     nfeat |-> 1, bias |-> 49, labels |-> "int", fault |-> "ok", attrs |-> a]
ImportanceModels == {NoModel} \cup {ImportanceModel(a) : a \in PlainAttributes \cup PipelineAttributes}

NameLists == {NoFeatures} \cup {FeatureList(t) : t \in {u \in SeqsUpTo(Names, MaxKeys) : NoDup(u)}}
TopNs == ((0 - MaxTop)..MaxTop) \cup {DefaultTopN}

Init ==
    /\ top_n = DefaultTopN
    /\ \/ /\ model \in Models
          /\ features \in FeatureLists
          /\ input_data \in InputDatas
          /\ probability = PyFloatOf(0)
       \/ /\ model = DefaultModel
          /\ features = DefaultFeatures
          /\ input_data = DefaultInput
          /\ probability \in Probabilities
    /\ op = "none"
    /\ result = NoResult
    /\ raised = NoException
    /\ calls = <<>>
    /\ stage = ""
    /\ exc = NoException
    /\ Unloaded

Finish(name, call) ==
    /\ op' = name
    /\ result' = call.ret
    /\ raised' = call.raised
    /\ calls' = call.calls
    /\ stage' = call.stage
    /\ exc' = call.exc
    /\ UNCHANGED <<model, features, input_data, probability, top_n>>
    /\ UNCHANGED process

\* The state in which get_feature_importance leaves its caller.
FinishImportance(call) ==
    /\ op' = "importance"
    /\ result' = call.ret
    /\ raised' = call.raised
    /\ calls' = call.calls
    /\ stage' = call.stage
    /\ exc' = call.exc
    /\ features' = call.caller_names
    /\ UNCHANGED <<model, input_data, probability, top_n>>
    /\ UNCHANGED process

Classify ==
    LET band == get_risk_classification(probability) IN
    Finish("classify",
           IF band.ok THEN Returned(band.val, <<>>)
           ELSE [ret |-> NoResult, raised |-> band.exc, calls |-> <<>>, stage |-> "band", exc |-> band.exc])

PredictHeart == Finish("heart", predict_heart_disease(model, features, input_data))

PredictDiabetes == Finish("diabetes", predict_diabetes(model, features, input_data))

PredictPcos == Finish("pcos", predict_pcos(model, input_data))

GetFeatureImportance == FinishImportance(get_feature_importance(model, features, top_n))

Next == Classify \/ PredictHeart \/ PredictDiabetes \/ PredictPcos \/ GetFeatureImportance

Spec == Init /\ [][Next]_vars

\* The calls on the arguments of get_feature_importance.
InitImportance ==
    /\ model \in ImportanceModels
    /\ features \in NameLists
    /\ top_n \in TopNs
    /\ input_data = DefaultInput
    /\ probability = PyFloatOf(0)
    /\ op = "none"
    /\ result = NoResult
    /\ raised = NoException
    /\ calls = <<>>
    /\ stage = ""
    /\ exc = NoException
    /\ Unloaded

SpecImportance == InitImportance /\ [][Next]_vars

\* Both sets of arguments.
SpecAll == (Init \/ InitImportance) /\ [][Next]_vars

\* The calls on every probability, the other arguments fixed.
InitBanding ==
    /\ top_n = DefaultTopN
    /\ model = DefaultModel
    /\ features = DefaultFeatures
    /\ input_data = DefaultInput
    /\ probability \in Probabilities
    /\ op = "none"
    /\ result = NoResult
    /\ raised = NoException
    /\ calls = <<>>
    /\ stage = ""
    /\ exc = NoException
    /\ Unloaded

SpecBanding == InitBanding /\ [][Next]_vars

\* The calls on classifiers whose predict agrees or disagrees with their
\* predict_proba, the feature list being the keys of the feature vector.
ClassModels == {Classifier(n, b, "int", f) : n \in 1..MaxFeat, b \in Biases, f \in {"ok", "inverted"}}

InitClasses ==
    /\ top_n = DefaultTopN
    /\ model \in ClassModels
    /\ input_data \in InputDatas
    /\ features = FeatureList(Keys(input_data))
    /\ probability = PyFloatOf(0)
    /\ op = "none"
    /\ result = NoResult
    /\ raised = NoException
    /\ calls = <<>>
    /\ stage = ""
    /\ exc = NoException
    /\ Unloaded

SpecClasses == InitClasses /\ [][Next]_vars

(***************************************************************************)
(* The process that loads: the loaders are called in any order, any number *)
(* of times, while the files under models_pkls/ come and go.               *)
(***************************************************************************)
Load(name, call) ==
    /\ \A f \in Range(call.opened) : reads[f] < MaxReads
    /\ op' = name
    /\ result' = call.ret
    /\ raised' = call.raised
    /\ exc' = call.exc
    /\ stage' = IF call.ran THEN "body" ELSE "cached"
    /\ calls' = call.opened
    /\ cache' = call.cache
    /\ reads' = [f \in Files |-> IF f \in Range(call.opened) THEN reads[f] + 1 ELSE reads[f]]
    /\ UNCHANGED <<model, features, input_data, probability, top_n, files, handlers>>

LoadHeartModel == Load("load_heart_model", load_heart_model(cache, files))

LoadDiabetesModel == Load("load_diabetes_model", load_diabetes_model(cache, files))

LoadPcosModel == Load("load_pcos_model", load_pcos_model(cache, files))

LoadPcosFeatures == Load("load_pcos_features", load_pcos_features(cache, files))

\* The files are put in place, or taken away, while the process runs.
RepairFiles ==
    /\ files # AllPresent
    /\ files' = AllPresent
    /\ UNCHANGED <<model, features, input_data, probability, op, result, raised, calls, stage, exc, top_n,
                   cache, reads, handlers>>

RemoveFiles ==
    /\ files # [f \in Files |-> "missing"]
    /\ files' = [f \in Files |-> "missing"]
    /\ UNCHANGED <<model, features, input_data, probability, op, result, raised, calls, stage, exc, top_n,
                   cache, reads, handlers>>

FileConfigs == {fs \in [Files -> FileStates] : Cardinality({f \in Files : fs[f] # "ok"}) <= MaxBad}

InitLoad ==
    /\ top_n = DefaultTopN
    /\ model = DefaultModel
    /\ features = DefaultFeatures
    /\ input_data = DefaultInput
    /\ probability = PyFloatOf(0)
    /\ op = "none"
    /\ result = NoResult
    /\ raised = NoException
    /\ calls = <<>>
    /\ stage = ""
    /\ exc = NoException
    /\ files \in FileConfigs
    /\ cache = EmptyCache
    /\ reads = NoReads
    /\ handlers = <<>>

NextLoad ==
    LoadHeartModel \/ LoadDiabetesModel \/ LoadPcosModel \/ LoadPcosFeatures \/ RepairFiles \/ RemoveFiles

SpecLoad == InitLoad /\ [][NextLoad]_vars

(***************************************************************************)
(* The concurrent server: every handler runs one call on the loaded model  *)
(* and feature list, which all handlers share, and on a feature vector of  *)
(* its own.  A call takes two steps, and the steps of the handlers         *)
(* interleave: a prediction builds its table (it reads the feature list),  *)
(* then asks the model; get_feature_importance picks the object that holds *)
(* the scores, then names, sorts and cuts them (it reads, and rebinds, the *)
(* feature names).                                                         *)
(***************************************************************************)
Handlers == 1..NumHandlers
Functions == {"heart", "diabetes", "pcos", "importance"}
ServerModels == {Classifier(1, 49, "int", "ok"), Classifier(2, 0, "int", "ok"), Pipeline(<<"b", "a">>, 34)}
ServerFeatures == {FeatureList(<<"a">>), FeatureList(<<"b", "a">>)}
ServerInputs ==
    {<<[name |-> "a", val |-> 1]>>,
     <<[name |-> "a", val |-> 1], [name |-> "b", val |-> 0]>>}

\* The call fn(m, f, d) run alone.
Alone(fn, m, f, d) ==
    CASE fn = "heart" -> predict_heart_disease(m, f, d)
      [] fn = "diabetes" -> predict_diabetes(m, f, d)
      [] fn = "pcos" -> predict_pcos(m, d)
      [] OTHER -> get_feature_importance(m, f, DefaultTopN)

\* A handler that has not started: its function, its feature vector, and
\* what the call returns when nothing runs beside it.
Request(fn, d, m, f) ==
    [fn |-> fn, d |-> d, pc |-> "start", df |-> Ok(DataFrame(<<>>)), m |-> NoModel,
     ret |-> NoResult, raised |-> NoException,
     alone |-> [ret |-> Alone(fn, m, f, d).ret, raised |-> Alone(fn, m, f, d).raised]]

\* First step.  df = pd.DataFrame([input_data])[features], or without
\* [features] in predict_pcos; classifier = ... in get_feature_importance.
Begin(h) ==
    LET me == handlers[h] IN
    /\ me.pc = "start"
    /\ handlers' = [handlers EXCEPT ![h] =
          [me EXCEPT !.pc = "called",
                     !.df = CASE me.fn \in {"heart", "diabetes"} -> OrderedRow(features, me.d)
                              [] me.fn = "pcos" -> FullRow(me.d)
                              [] OTHER -> me.df,
                     !.m = model]]
    /\ UNCHANGED <<model, features, input_data, probability, op, result, raised, calls, stage, exc, top_n,
                   files, cache, reads>>

\* Second step of a prediction: the model is asked and the result returned.
CompletePrediction(h) ==
    LET me == handlers[h]
        call == Predict(model, me.df)
    IN
    /\ me.pc = "called"
    /\ me.fn # "importance"
    /\ handlers' = [handlers EXCEPT ![h] = [me EXCEPT !.pc = "done", !.ret = call.ret, !.raised = call.raised]]
    /\ UNCHANGED <<model, features, input_data, probability, op, result, raised, calls, stage, exc, top_n,
                   files, cache, reads>>

\* Second step of get_feature_importance: names, sort, slice.
CompleteImportance(h) ==
    LET me == handlers[h]
        call == get_feature_importance(me.m, features, DefaultTopN)
    IN
    /\ me.pc = "called"
    /\ me.fn = "importance"
    /\ handlers' = [handlers EXCEPT ![h] = [me EXCEPT !.pc = "done", !.ret = call.ret, !.raised = call.raised]]
    /\ features' = call.caller_names
    /\ UNCHANGED <<model, input_data, probability, op, result, raised, calls, stage, exc, top_n,
                   files, cache, reads>>

InitServer ==
    /\ top_n = DefaultTopN
    /\ model \in ServerModels
    /\ features \in ServerFeatures
    /\ input_data = DefaultInput
    /\ probability = PyFloatOf(0)
    /\ op = "none"
    /\ result = NoResult
    /\ raised = NoException
    /\ calls = <<>>
    /\ stage = ""
    /\ exc = NoException
    /\ files = AllPresent
    /\ cache = EmptyCache
    /\ reads = NoReads
    /\ \E fns \in [Handlers -> Functions], ds \in [Handlers -> ServerInputs] :
          handlers = [h \in Handlers |-> Request(fns[h], ds[h], model, features)]

NextServer == \E h \in Handlers : Begin(h) \/ CompletePrediction(h) \/ CompleteImportance(h)

SpecServer == InitServer /\ [][NextServer]_vars

(***************************************************************************)
(* Properties.                                                             *)
(***************************************************************************)
Predictions == {"heart", "diabetes", "pcos"}
Ordered == {"heart", "diabetes"}

\* The banding table of the specification, for a probability in hundredths.
TableRow(h) ==
    IF h < 33
    THEN [risk_level |-> "Low Risk", color |-> "#10B981",
          recommendation |-> "Maintain healthy lifestyle and regular check-ups."]
    ELSE IF h < 67
    THEN [risk_level |-> "Moderate Risk", color |-> "#F59E0B",
          recommendation |-> "Consult healthcare provider and consider lifestyle modifications."]
    ELSE [risk_level |-> "High Risk", color |-> "#EF4444",
          recommendation |-> "Immediate medical consultation recommended."]

Triple(r) == [risk_level |-> r.risk_level, color |-> r.color, recommendation |-> r.recommendation]
Succeeded == "success" \in DOMAIN result /\ result.success
Failed == "success" \in DOMAIN result /\ ~result.success /\ "error" \in DOMAIN result

\* The value the feature vector d gives the name n.
Lookup(d, n) == d[CHOOSE i \in 1..Len(d) : d[i].name = n].val
HasAll(d, f) == f.kind = "list" /\ Range(f.names) \subseteq Range(Keys(d))

\* C1: get_risk_classification(p) returns the row of the banding table that
\* p selects (below 0.33 Low, from 0.33 and below 0.67 Moderate, from 0.67
\* High), label, color and recommendation from the same row.
C1_BandingTable ==
    op = "classify" =>
        /\ raised = NoException
        /\ result = TableRow(PyFloat(probability).val)

C1_Witness ==
    /\ op = "classify"
    /\ probability = PyFloatOf(33)
    /\ result.risk_level = "Moderate Risk"

\* C2: when the classifier's predict gives 1 and its positive-class
\* probability is 0.82 on the row built from the feature vector,
\* predict_heart_disease and predict_diabetes return exactly
\* {1, 0.82, High Risk, #EF4444, "Immediate medical consultation
\* recommended.", success}; and every success result carries the model's
\* class as an integer, its positive-class probability and the band triple.
C2_SuccessResult ==
    op \in Ordered /\ OrderedRow(features, input_data).ok
    /\ HasAttr(model, "predict") /\ HasAttr(model, "predict_proba") =>
        LET row == OrderedRow(features, input_data).val
            labels == ModelPredict(model, row)
            proba == ModelPredictProba(model, row)
        IN
        /\ ( /\ labels.ok /\ proba.ok
             /\ labels.val[1] \in {PyIntOf(1), PyFloatOf(100)}
             /\ Len(proba.val[1]) = 2
             /\ proba.val[1][2] = PyFloatOf(82) )
           => result = [prediction |-> 1, probability |-> 82, risk_level |-> "High Risk",
                        color |-> "#EF4444",
                        recommendation |-> "Immediate medical consultation recommended.",
                        success |-> TRUE]
        /\ Succeeded =>
             /\ labels.ok /\ proba.ok /\ Len(proba.val[1]) = 2
             /\ Ok(result.prediction) = PyInt(labels.val[1])
             /\ Ok(result.probability) = PyFloat(proba.val[1][2])
             /\ Triple(result) = TableRow(result.probability)

C2_Witness ==
    /\ op = "heart"
    /\ Succeeded
    /\ result.prediction = 1
    /\ result.probability = 82
    /\ Len(features.names) = 2
    /\ Len(input_data) = 3

\* C3: when the feature vector lacks a name of the feature list,
\* predict_heart_disease and predict_diabetes return success = false with a
\* non-empty error message, raise nothing, and invoke neither predict nor
\* predict_proba.
C3_MissingFeature ==
    op \in Ordered /\ features.kind = "list" /\ ~HasAll(input_data, features) =>
        /\ Failed
        /\ result.error.text # ""
        /\ raised = NoException
        /\ calls = <<>>

C3_Witness ==
    /\ op = "diabetes"
    /\ features = FeatureList(<<"a", "b">>)
    /\ Keys(input_data) = <<"c", "a">>
    /\ model.kind = "classifier" /\ model.fault = "ok"
    /\ Failed

\* C4: an exception raised in the try block of a prediction function
\* (building the row, predict, predict_proba, banding, the conversions)
\* leaves no call: the call returns success = false with the exception's
\* message as error; every call returns exactly one result.
C4_ExceptionsCaught ==
    op \in Predictions =>
        /\ raised = NoException
        /\ Succeeded \/ Failed
        /\ exc # NoException => result = [success |-> FALSE, error |-> exc.msg]
        /\ exc = NoException => Succeeded
        /\ (op \in Ordered /\ ~OrderedRow(features, input_data).ok) =>
               result = [success |-> FALSE, error |-> OrderedRow(features, input_data).exc.msg]
        /\ (calls # <<>> /\ ~ModelPredict(model, calls[1].frame).ok) =>
               result = [success |-> FALSE, error |-> ModelPredict(model, calls[1].frame).exc.msg]
        /\ (Len(calls) = 2 /\ ~ModelPredictProba(model, calls[2].frame).ok) =>
               result = [success |-> FALSE, error |-> ModelPredictProba(model, calls[2].frame).exc.msg]

C4_Witness ==
    /\ op = "pcos"
    /\ stage = "convert"
    /\ exc.type = "ValueError"
    /\ result = [success |-> FALSE, error |-> exc.msg]

\* C5: for a fitted binary classifier and the feature list it was fitted
\* with, a feature vector that holds a number for every listed name gives
\* success = true, a probability in [0,1] and a prediction in {0,1}.
C5_ValidInputSucceeds ==
    /\ op \in Ordered
    /\ HasAll(input_data, features)
    /\ \A i \in 1..Len(features.names) : Lookup(input_data, features.names[i]) # NonNumeric
    /\ model.kind = "classifier" /\ model.fault = "ok" /\ model.labels \in {"int", "float"}
    /\ model.nfeat = Len(features.names)
    =>
        /\ Succeeded
        /\ result.probability \in 0..100
        /\ result.prediction \in {0, 1}

C5_Witness ==
    /\ op = "diabetes"
    /\ Succeeded
    /\ Len(features.names) = 2
    /\ Len(input_data) = 3
    /\ result.prediction = 0
    /\ model.labels = "int"

\* C6: in every success result of the three prediction functions, risk_level,
\* color and recommendation are what get_risk_classification gives for the
\* result's own probability: the row of the banding table it selects.
C6_BandOfOwnProbability ==
    op \in Predictions /\ Succeeded =>
        /\ get_risk_classification(PyFloatOf(result.probability)) = Ok(Triple(result))
        /\ Triple(result) = TableRow(result.probability)

C6_Witness ==
    /\ op = "pcos"
    /\ Succeeded
    /\ result.prediction = 0
    /\ result.risk_level = "Moderate Risk"

\* C7: a prediction call handed an absent model (and, for heart and diabetes,
\* an absent feature list) returns success = false with an error message,
\* raises nothing and invokes nothing.
C7_AbsentModel ==
    /\ op \in Predictions
    /\ model.kind = "none"
    /\ op \in Ordered => features.kind = "none"
    =>
        /\ Failed
        /\ result.error.text # ""
        /\ raised = NoException
        /\ calls = <<>>

C7_Witness ==
    /\ op = "heart"
    /\ model = NoModel
    /\ features = NoFeatures
    /\ Len(input_data) = 2
    /\ Failed

\* C8: a prediction result is either a success result (success = true and
\* exactly prediction, probability, risk_level, color, recommendation) or a
\* failure result (success = false and exactly error); nothing in between.
C8_TwoShapes ==
    op \in Predictions =>
        \/ /\ DOMAIN result = {"prediction", "probability", "risk_level", "color", "recommendation", "success"}
           /\ result.success = TRUE
        \/ /\ DOMAIN result = {"success", "error"}
           /\ result.success = FALSE

C8_Witness ==
    /\ op = "heart"
    /\ stage = "band"
    /\ Len(calls) = 2
    /\ DOMAIN result = {"success", "error"}

\* The feature vector cut down to the listed names it holds, in the list's order.
Canonical(d, f) ==
    LET present == SelectSeq(f.names, LAMBDA n : n \in Range(Keys(d))) IN
    [i \in 1..Len(present) |-> [name |-> present[i], val |-> Lookup(d, present[i])]]

\* C9: the row predict_heart_disease and predict_diabetes hand to the model
\* has exactly the listed columns, in the list's order, with the feature
\* vector's values; and the result is that of the vector cut down to the
\* listed names in the list's order, so vectors that agree on every listed
\* name, whatever their key order and extra keys, get the same result.
C9_OrderedSelection ==
    op \in Ordered =>
        /\ \A i \in 1..Len(calls) :
              /\ calls[i].frame.columns = features.names
              /\ calls[i].frame.row =
                    [j \in 1..Len(features.names) |-> Lookup(input_data, features.names[j])]
        /\ op = "heart" =>
              predict_heart_disease(model, features, Canonical(input_data, features)).ret = result
        /\ op = "diabetes" =>
              predict_diabetes(model, features, Canonical(input_data, features)).ret = result

C9_Witness ==
    /\ op = "heart"
    /\ Succeeded
    /\ features.names = <<"b", "a">>
    /\ Keys(input_data) = <<"a", "c", "b">>
    /\ Lookup(input_data, "a") # Lookup(input_data, "b")
    /\ Len(calls) = 2

\* C10: the row predict_pcos hands to the pipeline holds every key of the
\* feature vector, in the vector's order, with its value: nothing is
\* reordered, dropped or added.
C10_FullRow ==
    op = "pcos" =>
        \A i \in 1..Len(calls) :
            /\ calls[i].frame.columns = Keys(input_data)
            /\ calls[i].frame.row = [j \in 1..Len(input_data) |-> input_data[j].val]

C10_Witness ==
    /\ op = "pcos"
    /\ Succeeded
    /\ Len(calls) = 2
    /\ Keys(input_data) = <<"c", "b", "a">>
    /\ Lookup(input_data, "b") = NonNumeric
    /\ calls[2].frame.columns = <<"c", "b", "a">>

(***************************************************************************)
(* Properties of get_feature_importance.                                   *)
(***************************************************************************)
Extracted == op = "importance" /\ "list" \in DOMAIN result

\* The object the importance vector is read from: the 'classifier' step of a
\* pipeline that has one, otherwise the object itself.
Stage(m) == IF m.attrs.steps = "dict" /\ m.attrs.classifier THEN m.attrs.step ELSE m.attrs.own
ExposesVector(m) == m.attrs.steps # "raises" /\ Stage(m).has /\ Stage(m).sized

\* The names the scores are labelled with before any substitution: those of
\* the preprocessor when it reports them, otherwise the caller's.
Preferred(m, caller) ==
    IF m.attrs.steps = "dict" /\ m.attrs.preprocessor = "names"
    THEN FeatureList(m.attrs.names_out) ELSE caller

\* C11 as stated: the returned pairs are sorted strictly descending by score.
C11_StrictlyDescending ==
    Extracted => \A i \in 1..(Len(result.list) - 1) : result.list[i].score > result.list[i + 1].score

\* C11, amended: the returned pairs are sorted descending by score, equal
\* scores allowed next to each other.
C11_Descending ==
    Extracted => \A i \in 1..(Len(result.list) - 1) : result.list[i].score >= result.list[i + 1].score

C11_Witness ==
    /\ Extracted
    /\ Len(result.list) = 3
    /\ Stage(model).scores = <<0, 2, 2>>
    /\ result.list[1].score = result.list[2].score
    /\ result.list[2].score > result.list[3].score

\* C12: for top_n >= 0, a model that exposes an importance vector and a name
\* list, the result has min(top_n, number of scores) pairs: at most top_n,
\* and none for top_n = 0.
C12_Length ==
    op = "importance" /\ top_n >= 0 /\ ExposesVector(model) /\ Preferred(model, features).kind = "list" =>
        /\ Len(result.list) = Min(top_n, Len(Stage(model).scores))
        /\ Len(result.list) <= top_n
        /\ top_n = 0 => result.list = <<>>

C12_Witness ==
    /\ Extracted
    /\ top_n = 2
    /\ Len(Stage(model).scores) = 3
    /\ Len(result.list) = 2

\* C13: when the name list in use and the importance vector differ in length,
\* the scores are labelled Feature_0, Feature_1, ... by their index in the
\* vector, then sorted and truncated; the result is not empty when top_n > 0
\* and there is a score.
C13_SyntheticNames ==
    /\ op = "importance"
    /\ ExposesVector(model)
    /\ Preferred(model, features).kind = "list"
    /\ Len(Preferred(model, features).names) # Len(Stage(model).scores)
    =>
        LET scores == Stage(model).scores IN
        /\ raised = NoException
        /\ \A k \in 1..Len(result.list) :
              \E i \in 1..Len(scores) : result.list[k] = [name |-> FeatureLabels[i], score |-> scores[i]]
        /\ \A k \in 1..(Len(result.list) - 1) : result.list[k].score >= result.list[k + 1].score
        /\ top_n >= 0 => Len(result.list) = Min(top_n, Len(scores))
        /\ (top_n > 0 /\ scores # <<>>) => result.list # <<>>

C13_Witness ==
    /\ Extracted
    /\ Stage(model).scores = <<3, 1, 4, 1, 5>>
    /\ Len(features.names) = 3
    /\ features.kind = "list"
    /\ top_n = 10
    /\ [k \in 1..Len(result.list) |-> result.list[k].name]
          = <<"Feature_4", "Feature_2", "Feature_0", "Feature_1", "Feature_3">>

\* C14: when the classification stage, or the bare model, has no importance
\* vector, the result is empty and nothing is raised, whatever the names and
\* top_n.
C14_NoVector ==
    op = "importance" /\ model.attrs.steps # "raises" /\ ~Stage(model).has =>
        /\ result = [list |-> <<>>]
        /\ raised = NoException
        /\ exc = NoException

C14_Witness ==
    /\ Extracted
    /\ model.attrs.steps = "dict" /\ model.attrs.classifier
    /\ ~model.attrs.step.has
    /\ model.attrs.own.has
    /\ features = NoFeatures
    /\ top_n = 3
    /\ result.list = <<>>

\* C15: an exception raised inside get_feature_importance (a name list or an
\* importance vector without a length, a failing read of named_steps) gives
\* the empty list; nothing reaches the caller.
C15_ExceptionsGiveEmpty ==
    op = "importance" =>
        /\ raised = NoException
        /\ "list" \in DOMAIN result
        /\ exc # NoException => result = [list |-> <<>>]
        /\ model.attrs.steps = "raises" => result = [list |-> <<>>] /\ exc # NoException
        /\ (model.attrs.steps # "raises" /\ Stage(model).has /\ ~Stage(model).sized) => result = [list |-> <<>>]
        /\ (model.attrs.steps # "raises" /\ Stage(model).has /\ Preferred(model, features).kind = "none")
              => result = [list |-> <<>>] /\ exc.type = "TypeError"

C15_Witness ==
    /\ Extracted
    /\ stage = "len"
    /\ exc.type = "TypeError"
    /\ features.kind = "list"
    /\ ~Stage(model).sized
    /\ top_n = 10
    /\ result.list = <<>>

\* C16: the scores come from the 'classifier' step of a pipeline, from the
\* pipeline itself when it has no such step, and from the model itself when
\* it is no pipeline.
C16_Stage ==
    op = "importance" /\ model.attrs.steps # "raises" =>
        LET vector == IF model.attrs.steps = "dict"
                      THEN (IF model.attrs.classifier THEN model.attrs.step ELSE model.attrs.own)
                      ELSE model.attrs.own
        IN
        /\ ~vector.has => result.list = <<>>
        /\ (vector.has /\ vector.sized /\ Preferred(model, features).kind = "list") =>
              /\ \A k \in 1..Len(result.list) :
                    \E i \in 1..Len(vector.scores) : result.list[k].score = vector.scores[i]
              /\ top_n >= Len(vector.scores) => Len(result.list) = Len(vector.scores)

C16_Witness ==
    /\ Extracted
    /\ model.attrs.steps = "dict" /\ ~model.attrs.classifier
    /\ model.attrs.own = Importances(<<2, 1, 0>>)
    /\ model.attrs.step = Importances(<<1>>)
    /\ Len(result.list) = 3

\* C17: with a preprocessor step that reports its output names, those label
\* the scores instead of the caller's; when reporting them raises, the
\* caller's list is kept and the call goes on; without a preprocessor step
\* the caller's list is used.
C17_PreprocessorNames ==
    op = "importance" /\ ExposesVector(model) =>
        LET scores == Stage(model).scores
            reported == model.attrs.steps = "dict" /\ model.attrs.preprocessor = "names"
            names == IF reported THEN model.attrs.names_out ELSE features.names
        IN
        (reported \/ features.kind = "list") /\ Len(names) = Len(scores) =>
            /\ exc = NoException
            /\ \A k \in 1..Len(result.list) :
                  \E i \in 1..Len(scores) : result.list[k] = [name |-> names[i], score |-> scores[i]]
            /\ top_n >= 0 => Len(result.list) = Min(top_n, Len(scores))

C17_Witness ==
    /\ Extracted
    /\ model.attrs.preprocessor = "raises"
    /\ model.attrs.classifier
    /\ features = FeatureList(<<"c", "a", "b">>)
    /\ Stage(model).scores = <<2, 1, 0>>
    /\ result.list = <<[name |-> "c", score |-> 2], [name |-> "a", score |-> 1]>>

(***************************************************************************)
(* Properties of the banding as a function, and of the arguments.          *)
(***************************************************************************)
Levels == <<"Low Risk", "Moderate Risk", "High Risk">>
Rank(level) == CHOOSE i \in 1..Len(Levels) : Levels[i] = level

\* C18: get_risk_classification is total and deterministic on numbers: it
\* raises nothing and returns one of the three bands, Low Risk below 0 and
\* High Risk above 1, and a repeated call gives the same band.
C18_Total ==
    /\ [](op = "classify" =>
            /\ raised = NoException
            /\ result \in {LowBand, ModerateBand, HighBand}
            /\ PyFloat(probability).val < 0 => result.risk_level = "Low Risk"
            /\ PyFloat(probability).val > 100 => result.risk_level = "High Risk")
    /\ [][(op = "classify" /\ op' = "classify") => result' = result]_vars

C18_Witness ==
    /\ op = "classify"
    /\ probability = PyFloatOf(0 - Margin)
    /\ raised = NoException
    /\ result = LowBand

\* C19: banding is monotonic: a probability at least as large as the one
\* classified never gets a lower band.
C19_Monotonic ==
    op = "classify" /\ raised = NoException =>
        \A q \in Probabilities :
            PyFloat(q).val >= PyFloat(probability).val =>
                LET higher == get_risk_classification(q) IN
                /\ higher.ok
                /\ Rank(higher.val.risk_level) >= Rank(result.risk_level)

C19_Witness ==
    /\ op = "classify"
    /\ probability = PyFloatOf(HighThreshold - 1)
    /\ result.risk_level = "Moderate Risk"
    /\ get_risk_classification(PyFloatOf(HighThreshold)).val.risk_level = "High Risk"

\* C20: no call changes the model object, the caller's feature-name list or
\* the feature vector it was given.
C20_ArgumentsKept ==
    [][/\ model' = model
       /\ features' = features
       /\ input_data' = input_data]_vars

C20_Witness ==
    /\ Extracted
    /\ features = FeatureList(<<"a", "b", "c">>)
    /\ Stage(model).scores = <<3, 1, 4, 1, 5>>
    /\ result.list # <<>>
    /\ result.list[1].name = "Feature_4"

(***************************************************************************)
(* Properties of the pairing, the ties and the truncation.                 *)
(***************************************************************************)
\* The names that label the scores of m in the end: the preferred ones when
\* they are as many as the scores, the synthetic ones otherwise.
Labels(m, caller) ==
    LET scores == Stage(m).scores
        names == Preferred(m, caller).names
    IN IF Len(names) = Len(scores) THEN names ELSE [i \in 1..Len(scores) |-> FeatureLabels[i]]

Ranks == op = "importance" /\ ExposesVector(model) /\ Preferred(model, features).kind = "list"

\* The index, in the importance vector, of the k-th returned pair.
IndexReturned(k) == IndexOf(Labels(model, features), result.list[k].name)
Returns(k) == result.list[k].name \in Range(Labels(model, features))
Omitted == (1..Len(Stage(model).scores)) \ {IndexReturned(k) : k \in 1..Len(result.list)}

\* C25: every returned pair is (n_i, s_i) for an index i of the names in use
\* and the importance vector, no index is returned twice, and no omitted
\* index has a higher score than a returned one.
C25_PairsKept ==
    Ranks =>
        LET scores == Stage(model).scores IN
        /\ \A k \in 1..Len(result.list) :
              /\ Returns(k)
              /\ result.list[k].score = scores[IndexReturned(k)]
        /\ \A j, k \in 1..Len(result.list) : j # k => IndexReturned(j) # IndexReturned(k)
        /\ Len(result.list) <= Len(scores)
        /\ \A j \in Omitted : \A k \in 1..Len(result.list) : scores[j] <= result.list[k].score

C25_Witness ==
    /\ Ranks
    /\ features = FeatureList(<<"b", "c", "a">>)
    /\ Stage(model).scores = <<1, 0, 2>>
    /\ top_n = 2
    /\ result.list = <<[name |-> "a", score |-> 2], [name |-> "b", score |-> 1]>>

\* C26: pairs of equal score are returned in the order of their indices in
\* the importance vector, and of two indices of equal score the one that
\* survives the truncation is the earlier.
C26_StableTies ==
    Ranks /\ (\A k \in 1..Len(result.list) : Returns(k)) =>
        LET scores == Stage(model).scores IN
        /\ \A k \in 1..(Len(result.list) - 1) :
              result.list[k].score = result.list[k + 1].score => IndexReturned(k) < IndexReturned(k + 1)
        /\ \A j \in Omitted : \A k \in 1..Len(result.list) :
              scores[j] = result.list[k].score => IndexReturned(k) < j

C26_Witness ==
    /\ Ranks
    /\ model.attrs.steps = "absent"
    /\ features = FeatureList(<<"a", "b", "c">>)
    /\ Stage(model).scores = <<2, 0, 2>>
    /\ top_n = 1
    /\ result.list = <<[name |-> "a", score |-> 2]>>

\* C27: for a negative top_n nothing fails and the result is the sorted list
\* without its last |top_n| pairs: empty only when |top_n| is at least the
\* number of scores, and longer than top_n.
C27_NegativeTopN ==
    Ranks /\ top_n < 0 =>
        LET scores == Stage(model).scores
            kept == IF Len(scores) + top_n > 0 THEN Len(scores) + top_n ELSE 0
        IN
        /\ raised = NoException
        /\ exc = NoException
        /\ Len(result.list) = kept
        /\ Len(result.list) > top_n
        /\ result.list = <<>> <=> 0 - top_n >= Len(scores)
        /\ \A k \in 1..(Len(result.list) - 1) : result.list[k].score >= result.list[k + 1].score
        /\ \A j \in Omitted : \A k \in 1..Len(result.list) : scores[j] <= result.list[k].score

C27_Witness ==
    /\ Ranks
    /\ top_n = 0 - 1
    /\ Stage(model).scores = <<0, 1, 2>>
    /\ features = FeatureList(<<"a", "b", "c">>)
    /\ result.list = <<[name |-> "c", score |-> 2], [name |-> "b", score |-> 1]>>

\* C28: once the preprocessor has reported its names the caller's names are
\* not used: reported names that are not as many as the scores give the
\* synthetic names, also when the caller's list has the right length.
C28_NoReturnToCaller ==
    /\ op = "importance"
    /\ ExposesVector(model)
    /\ model.attrs.steps = "dict"
    /\ model.attrs.preprocessor = "names"
    =>
        LET scores == Stage(model).scores
            used == IF Len(model.attrs.names_out) = Len(scores)
                    THEN model.attrs.names_out
                    ELSE [i \in 1..Len(scores) |-> FeatureLabels[i]]
        IN
        /\ exc = NoException
        /\ \A k \in 1..Len(result.list) :
              /\ result.list[k].name \in Range(used)
              /\ result.list[k].name \notin Range(features.names)
        /\ (top_n > 0 /\ scores # <<>>) => result.list # <<>>

C28_Witness ==
    /\ op = "importance"
    /\ model.attrs.preprocessor = "names"
    /\ model.attrs.names_out = <<"num__a">>
    /\ model.attrs.classifier
    /\ Stage(model).scores = <<2, 1, 0>>
    /\ features = FeatureList(<<"a", "b", "c">>)
    /\ top_n = 10
    /\ result.list = <<[name |-> "Feature_0", score |-> 2], [name |-> "Feature_1", score |-> 1],
                       [name |-> "Feature_2", score |-> 0]>>

(***************************************************************************)
(* Properties that relate two calls.                                       *)
(***************************************************************************)
SameAs(call) == result = call.ret /\ raised = call.raised /\ calls = call.calls

\* C22: predict_heart_disease and predict_diabetes return the same for the
\* same model, feature list and feature vector, and predict_pcos(model, v)
\* returns what predict_heart_disease(model, names, v) returns when names is
\* the key sequence of v.
C22_Variants ==
    /\ op = "heart" => SameAs(predict_diabetes(model, features, input_data))
    /\ op = "diabetes" => SameAs(predict_heart_disease(model, features, input_data))
    /\ op = "pcos" => SameAs(predict_heart_disease(model, FeatureList(Keys(input_data)), input_data))
    /\ (op = "heart" /\ features = FeatureList(Keys(input_data))) => SameAs(predict_pcos(model, input_data))

C22_Witness ==
    /\ op = "pcos"
    /\ model = Classifier(2, 0, "int", "ok")
    /\ input_data = <<[name |-> "b", val |-> 0], [name |-> "a", val |-> 1]>>
    /\ Succeeded
    /\ result.probability = 22
    /\ result = predict_heart_disease(model, FeatureList(<<"b", "a">>), input_data).ret

\* The model that returns the same probabilities and the other class.
Contrary(m) == [m EXCEPT !.fault = IF m.fault = "ok" THEN "inverted" ELSE "ok"]

OtherRun ==
    CASE op = "heart" -> predict_heart_disease(Contrary(model), features, input_data)
      [] op = "diabetes" -> predict_diabetes(Contrary(model), features, input_data)
      [] OTHER -> predict_pcos(Contrary(model), input_data)

\* C29: the band of a successful prediction depends on the probability and
\* not on the class: the run on a model that returns the same probability
\* and the other class gives the same risk_level, color and recommendation.
C29_BandIgnoresClass ==
    op \in Predictions /\ Succeeded /\ model.fault \in {"ok", "inverted"} =>
        LET other == OtherRun.ret IN
        /\ other.success
        /\ other.probability = result.probability
        /\ other.prediction # result.prediction
        /\ Triple(other) = Triple(result)

C29_Witness ==
    /\ op \in Predictions
    /\ Succeeded
    /\ result.prediction = 0
    /\ result.risk_level = "High Risk"
    /\ result.probability >= HighThreshold

(***************************************************************************)
(* Properties of the loaders.                                              *)
(***************************************************************************)
PairLoaders == {"load_heart_model", "load_diabetes_model"}

\* C23: a loader reads its files at most once: the value of its first call
\* is kept, failed or not, and every later call returns it and opens no file.
C23_LoadedOnce ==
    /\ [](\A f \in Files : reads[f] <= 1)
    /\ [][/\ \A l \in Loaders : cache[l].set => cache'[l] = cache[l]
          /\ \A l \in Loaders :
                (op' = l /\ cache[l].set) =>
                    /\ result' = cache[l].val
                    /\ reads' = reads
                    /\ raised' = NoException]_vars

C23_Witness ==
    /\ op = "load_heart_model"
    /\ stage = "cached"
    /\ files = AllPresent
    /\ result = NonePair
    /\ reads["heart_model.pkl"] = 1
    /\ reads["heart_features.pkl"] = 1

\* C24: load_heart_model and load_diabetes_model return a model together
\* with its features, or (None, None), and raise nothing; a model that has
\* loaded is dropped when the feature list fails to load.
C24_AllOrNothing ==
    op \in PairLoaders =>
        /\ raised = NoException
        /\ \/ result = NonePair
           \/ result.model # NoModel /\ result.features # NoFeatures
        /\ (stage = "body" /\ exc # NoException) => result = NonePair
        /\ (stage = "body" /\ exc = NoException) => result = LoadedPair(PickledModel, PickledFeatures)

C24_Witness ==
    /\ op = "load_diabetes_model"
    /\ stage = "body"
    /\ calls = <<"diabetes_model.pkl", "diabetes_features.pkl">>
    /\ files["diabetes_model.pkl"] = "ok"
    /\ files["diabetes_features.pkl"] = "corrupt"
    /\ exc.type = "UnpicklingError"
    /\ result = NonePair

(***************************************************************************)
(* Properties of the concurrent server.                                    *)
(***************************************************************************)
\* C21: whatever the interleaving, a call that has returned has returned
\* what it returns when run alone on the loaded model and feature list.
C21_Interleavings ==
    \A h \in DOMAIN handlers :
        handlers[h].pc = "done" =>
            /\ handlers[h].ret = handlers[h].alone.ret
            /\ handlers[h].raised = handlers[h].alone.raised

C21_Witness ==
    /\ DOMAIN handlers = Handlers
    /\ model = Classifier(2, 0, "int", "ok")
    /\ features = FeatureList(<<"b", "a">>)
    /\ handlers[1].fn = "importance" /\ handlers[1].pc = "done"
    /\ handlers[1].ret = [list |-> <<[name |-> "a", score |-> 2], [name |-> "b", score |-> 1]>>]
    /\ handlers[2].fn = "heart" /\ handlers[2].pc = "done"
    /\ handlers[2].ret.success
    /\ handlers[2].ret = handlers[2].alone.ret

====
